---- MODULE Spec2Model ----
(***************************************************************************)
(* Verification model of github-user-insights-api.                         *)
(*                                                                         *)
(*   AIProcessor  (services/ai-processor.js): the request queue            *)
(*                 queueAIRequest / processQueue / sendToGemini.           *)
(*   GitHubScraper (services/scraper.js): searchUsers, fetchAllUsers,      *)
(*                 scrapeUsersPage, processUserProfilesInBatches,          *)
(*                 scrapeUserProfile and the in-memory cache.              *)
(*                                                                         *)
(* JavaScript runs every handler to its next await without interleaving,   *)
(* so one action is one such run-to-completion segment.  Time is a set of  *)
(* countdown timers decremented together by Tick; a timer may fire at or   *)
(* after its deadline, never before (setTimeout semantics).                *)
(***************************************************************************)
EXTENDS Integers, Sequences, FiniteSets, TLC

(***************************************************************************)
(* Bounds of the model.                                                    *)
(***************************************************************************)
MaxItems == 3
TickStep == 1000
MaxRuns == 2
MaxCalls == 2

(***************************************************************************)
(* Program constants.                                                      *)
(***************************************************************************)
rateLimitDelay == 1000
maxAttempts == 3
scraperRateLimitDelay == 3000
batchSize == 3

Items == 1..MaxItems
Responses == {"text", "empty", "neterr"}

\* Activations of searchUsers that can be in progress at once.
Runs == 1..MaxRuns
\* Values of the pages argument of searchUsers, and the page numbers they give.
PageCounts == {1, 2}
PageNos == UNION {1..n : n \in PageCounts}
\* Queries: a string is a sequence of characters; the route handler can also
\* pass a non-string (an array, when the parameter is given twice).
Str(chars) == [type |-> "string", chars |-> chars]
\* A UTF-16 surrogate that is not part of a pair, as one character.
loneSurrogate == "uD800"
Queries == {Str(<<"r">>), Str(<<>>), Str(<<" ">>), Str(<<"r", loneSurrogate>>),
            [type |-> "object", chars |-> <<"r">>]}
\* A search-results document is represented by the usernames of the entries
\* that extraction finds in it, in document order.
PageDocs == {<<>>, <<"u1", "u2", "u1">>, <<"u1", "u2", "u3", "u2">>}
\* What a GET of the source site can produce.
GetOutcomes == {"ok", "empty", "neterr"}
PageResponses ==
  {[kind |-> k, doc |-> <<>>] : k \in {"empty", "neterr"}}
    \cup {[kind |-> "ok", doc |-> d] : d \in PageDocs}

Min(a, b) == IF a < b THEN a ELSE b
Max(a, b) == IF a > b THEN a ELSE b
CountDown(t) == Max(0, t - TickStep)

\* String.prototype.trim on a sequence of characters.
RECURSIVE TrimLeft(_)
TrimLeft(q) == IF q # <<>> /\ Head(q) = " " THEN TrimLeft(Tail(q)) ELSE q
RECURSIVE TrimRight(_)
TrimRight(q) ==
  IF q # <<>> /\ q[Len(q)] = " " THEN TrimRight(SubSeq(q, 1, Len(q) - 1)) ELSE q
Trim(q) == TrimRight(TrimLeft(q))

VARIABLES
  \* ---- AIProcessor ----
  requestQueue,     \* this.requestQueue: sequence of queued items
  processingQueue,  \* this.processingQueue
  pc,               \* per item: position of the processQueue activation that holds it
  attempts,         \* per item: local variable attempts of that activation
  sleepRem,         \* per item: remaining time of the backoff sleep
  timers,           \* pending setTimeout(() => this.processQueue(), ...) timers
  sink,             \* per item: state of the promise returned by queueAIRequest
  nSubmitted,       \* number of queueAIRequest calls so far
  \* ---- observation of the queue (history) ----
  settles,          \* per item: number of resolve()/reject() calls
  calls,            \* per item: number of sendToGemini calls started
  outcomes,         \* per item: success (TRUE) or failure of each finished sendToGemini call
  lastErr,          \* per item: the error caught last by its activation ("none" once it resolved)
  backoffs,         \* per item: the retry delays slept, in order
  dispatchOrder,    \* items in the order their dispatch started
  sinceEnd,         \* time since the latest dispatch ended, saturated at rateLimitDelay
  startGap,         \* sinceEnd at the moment the latest dispatch started
  \* ---- AIProcessor.processUser ----
  insights,         \* per item: how the processUser call that submitted it completed
  emptyOnly,        \* per item: its calls so far all got a response without text
  \* ---- GitHubScraper ----
  cache,            \* this.cache: function from the keys present to their values
  ncalls,           \* number of searchUsers calls so far
  phase,            \* per run of searchUsers: where it is awaiting
  query,            \* per run: the query argument
  npages,           \* per run: the pages argument
  pageSt,           \* per run and page: the scrapeUsersPage call
  users,            \* per run: result of fetchAllUsers
  bi,               \* per run: loop variable i of processUserProfilesInBatches
  profSt,           \* per run and candidate index: the scrapeUserProfile call
  detailedUsers,    \* per run: detailedUsers of processUserProfilesInBatches
  pauseRem,         \* per run: remaining time of the inter-batch sleep
  result,           \* per run: value returned by searchUsers
  outcome,          \* per run: state of the promise returned by searchUsers
  probeOut,         \* per run: what the GET of testGitHubConnectivity produced
  \* ---- observation of the scraper (history) ----
  net,              \* per run: network GETs issued (probe, page, profile)
  hitGets,          \* GETs issued for a unit whose key was in the cache at lookup
  writes,           \* per cache key: number of cache.set calls made with it
  nops,             \* per run: scrapeUserProfile calls made
  nbatches,         \* per run: batches started
  npauses,          \* per run: inter-batch sleeps started
  sinceBatch,       \* per run: time since its latest batch completed (saturated)
  batchGap,         \* per run: sinceBatch when its latest batch started
  \* ---- AIProcessor.parseAIResponse on its own ----
  aiResponse,       \* the argument aiResponse: a text, as a sequence of characters
  parsed,           \* how parseAIResponse(aiResponse) completed, once it was called
  blockInsights,    \* the insights parsed from the block that aiResponse held before
                    \* the block was replaced by labeled lines
  \* ---- structural extraction on its own ----
  searchDoc,        \* a search-results document: per container selector, its elements
  pageUsers,        \* how the extraction of scrapeUsersPage completed on searchDoc
  profileDoc,       \* a profile document: the texts that the count selectors find
  counts,           \* how the extraction of the count fields completed on profileDoc
  \* ---- route handler GET /api/v1/github/users ----
  hst,              \* where the handler of the request in progress is awaiting
  hk,               \* loop position of for (const user of users): index of user
  hitem,            \* the queue item of the processUser call it awaits
  enrichedUsers,    \* its local enrichedUsers
  response          \* the response sent last

qvars == <<requestQueue, processingQueue, pc, attempts, sleepRem, timers, sink,
           nSubmitted, settles, calls, outcomes, lastErr, backoffs,
           dispatchOrder, sinceEnd, startGap, insights, emptyOnly>>

svars == <<cache, ncalls, phase, query, npages, pageSt, users, bi, profSt, detailedUsers,
           pauseRem, result, outcome, probeOut, net, hitGets, writes, nops, nbatches,
           npauses, sinceBatch, batchGap>>

pvars == <<aiResponse, parsed, blockInsights>>

xvars == <<searchDoc, pageUsers, profileDoc, counts>>

rvars == <<hst, hk, hitem, enrichedUsers, response>>

vars == <<qvars, svars, pvars, xvars, rvars>>

----------------------------------------------------------------------------
(***************************************************************************)
(* AIProcessor.parseAIResponse and extractSection                          *)
(*                                                                         *)
(* A text is a sequence of characters.  The characters that the code       *)
(* treats specially are kept ("{", "}", the double quote, ":", ",", the    *)
(* space, "\n"); a section name or a key of the response is one character  *)
(* of the text, so that includes(sectionName) is membership of the line.   *)
(***************************************************************************)
sectionNames ==
  <<"Primary skills", "Tech stack", "Experience level", "Notable contributions",
    "Brief professional summary">>
sectionKeys ==
  <<"primary_skills", "tech_stack", "experience_level", "notable_contributions",
    "professional_summary">>
Sections == DOMAIN sectionNames

\* Keys of an insights object are strings, kept as sequences of characters.
Key(name) == <<name>>
rawResponseKey == Key("raw_response")
timestampKey == Key("timestamp")
errorKey == Key("error")
statusKey == Key("status")
\* new Date().toISOString()
Now == <<"now">>

Range(t) == {t[i] : i \in DOMAIN t}
FirstIdx(t, c) ==
  LET S == {i \in DOMAIN t : t[i] = c}
  IN  IF S = {} THEN 0 ELSE CHOOSE i \in S : \A j \in S : i <= j
LastIdx(t, c) ==
  LET S == {i \in DOMAIN t : t[i] = c}
  IN  IF S = {} THEN 0 ELSE CHOOSE i \in S : \A j \in S : i >= j

\* String.prototype.split(sep) for a one-character separator.
RECURSIVE Split(_, _)
Split(t, sep) ==
  LET i == FirstIdx(t, sep)
  IN  IF i = 0 THEN <<t>>
      ELSE <<SubSeq(t, 1, i - 1)>> \o Split(SubSeq(t, i + 1, Len(t)), sep)

\* aiResponse.match(/\{[\s\S]*\}/): from the first "{" to the last "}".
Match(text) ==
  LET a == FirstIdx(text, "{")
      b == LastIdx(text, "}")
  IN  IF a # 0 /\ b > a
      THEN [found |-> TRUE, from |-> a, to |-> b, block |-> SubSeq(text, a, b)]
      ELSE [found |-> FALSE, from |-> 0, to |-> 0, block |-> <<>>]

\* JSON.parse, for objects whose members are "key": "string".
RECURSIVE SkipWs(_)
SkipWs(t) ==
  IF t # <<>> /\ Head(t) \in {" ", "\n"} THEN SkipWs(Tail(t)) ELSE t

\* A string literal at the head of t: no raw line break inside.
ReadString(t) ==
  IF t = <<>> \/ Head(t) # "\"" THEN [ok |-> FALSE, str |-> <<>>, rest |-> <<>>]
  ELSE LET j == FirstIdx(Tail(t), "\"") IN
       IF j = 0 \/ "\n" \in Range(SubSeq(Tail(t), 1, j - 1))
       THEN [ok |-> FALSE, str |-> <<>>, rest |-> <<>>]
       ELSE [ok |-> TRUE, str |-> SubSeq(Tail(t), 1, j - 1),
             rest |-> SubSeq(Tail(t), j + 1, Len(Tail(t)))]

JSONfail == [ok |-> FALSE, pairs |-> <<>>, rest |-> <<>>]

\* The members of an object, up to and including its closing brace.
RECURSIVE Members(_, _)
Members(t, acc) ==
  LET k == ReadString(SkipWs(t)) IN
  IF ~k.ok THEN JSONfail
  ELSE LET c == SkipWs(k.rest) IN
       IF c = <<>> \/ Head(c) # ":" THEN JSONfail
       ELSE LET v == ReadString(SkipWs(Tail(c))) IN
            IF ~v.ok THEN JSONfail
            ELSE LET e == SkipWs(v.rest)
                     acc2 == Append(acc, <<k.str, v.str>>)
                 IN  IF e = <<>> THEN JSONfail
                     ELSE IF Head(e) = "," THEN Members(Tail(e), acc2)
                     ELSE IF Head(e) = "}"
                          THEN [ok |-> TRUE, pairs |-> acc2, rest |-> Tail(e)]
                     ELSE JSONfail

\* The object of a list of members: a repeated key keeps its last value.
ToObject(pairs) ==
  [k \in {pairs[i][1] : i \in DOMAIN pairs} |->
     LET S == {i \in DOMAIN pairs : pairs[i][1] = k}
     IN  pairs[CHOOSE i \in S : \A j \in S : i >= j][2]]

JSONparse(block) ==
  IF block = <<>> \/ Head(block) # "{" THEN [ok |-> FALSE, obj |-> <<>>]
  ELSE LET t == SkipWs(Tail(block)) IN
       IF t # <<>> /\ Head(t) = "}"
       THEN [ok |-> Tail(t) = <<>>, obj |-> <<>>]
       ELSE LET m == Members(t, <<>>) IN
            IF m.ok /\ m.rest = <<>>
            THEN [ok |-> TRUE, obj |-> ToObject(m.pairs)]
            ELSE [ok |-> FALSE, obj |-> <<>>]

\* obj with obj[k] = v assigned.
Assign(obj, k, v) == [x \in DOMAIN obj \cup {k} |-> IF x = k THEN v ELSE obj[x]]

\* extractSection, lines 240-243: the continuation lines appended to content.
RECURSIVE Continuation(_, _, _)
Continuation(lines, j, content) ==
  IF j <= Len(lines) /\ ":" \notin Range(lines[j]) /\ Trim(lines[j]) # <<>>
  THEN Continuation(lines, j + 1, content \o <<" ">> \o Trim(lines[j]))
  ELSE content

\* extractSection, line 238: lines[i].split(':')[1]?.trim() || ''
AfterLabel(line) ==
  LET parts == Split(line, ":")
  IN  IF Len(parts) >= 2 THEN Trim(parts[2]) ELSE <<>>

extractSection(lines, sectionName) ==
  LET S == {i \in DOMAIN lines : sectionName \in Range(lines[i])} IN
  IF S = {} THEN <<>>
  ELSE LET i == CHOOSE x \in S : \A y \in S : x <= y
       IN  Continuation(lines, i + 1, AfterLabel(lines[i]))

\* parseAIResponse, lines 209-221: the insights of the line scan.
LineInsights(text) ==
  LET lines == Split(text, "\n") IN
  [k \in {Key(sectionKeys[n]) : n \in Sections} \cup {rawResponseKey, timestampKey} |->
     IF k = rawResponseKey THEN text
     ELSE IF k = timestampKey THEN Now
     ELSE LET n == CHOOSE m \in Sections : Key(sectionKeys[m]) = k
          IN  extractSection(lines, sectionNames[n])]

\* parseAIResponse, lines 226-231: the value returned by the outer catch.
ParseErrorInsights(text) ==
  [k \in {errorKey, rawResponseKey, timestampKey} |->
     IF k = errorKey THEN <<"Failed to parse AI response">>
     ELSE IF k = rawResponseKey THEN text
     ELSE Now]

Returned(v) == [st |-> "returned", val |-> v]
Thrown(e) == [st |-> "threw", val |-> <<e>>]
\* No text yet / a text not parsed yet.
NoText == [st |-> "idle", val |-> <<>>]
NotCalled == [st |-> "none", val |-> <<>>]

\* parseAIResponse, lines 186-222: the body of the outer try.
ParseBody(text) ==
  LET m == Match(text) IN
  IF m.found
  THEN LET j == JSONparse(m.block) IN
       IF j.ok
       THEN Returned(Assign(Assign(j.obj, rawResponseKey, text), timestampKey, Now))
       ELSE Thrown("jsonError")
  ELSE Returned(LineInsights(text))

\* parseAIResponse, lines 223-232: the outer catch.
OuterCatch_rethrow(text, body) == body
OuterCatch(text, body) ==
  IF body.st = "threw" THEN Returned(ParseErrorInsights(text)) ELSE body

parseAIResponse(text) == OuterCatch(text, ParseBody(text))

\* ---- texts on which parseAIResponse is exercised ----
MaxTextLen == 3
TextChars == {"{", "}", "\"", ":", ",", "a", "\n", "Primary skills"}
RECURSIVE TextsOfLen(_)
TextsOfLen(n) ==
  IF n = 0 THEN {<<>>}
  ELSE {Append(t, c) : t \in TextsOfLen(n - 1), c \in TextChars}
ShortTexts == UNION {TextsOfLen(n) : n \in 0..MaxTextLen}

\* Values of the five sections of a generated response.
SectionValues == {<<"a">>, <<"a", ":", "a">>, <<" ", "a", " ", " ", "a">>}
\* What a response has before its block.
Preambles == {<<>>, <<"a", "\n">>}

RECURSIVE JoinWith(_, _)
JoinWith(parts, sep) ==
  IF Len(parts) = 0 THEN <<>>
  ELSE IF Len(parts) = 1 THEN parts[1]
  ELSE parts[1] \o <<sep>> \o JoinWith(Tail(parts), sep)

\* The response format asked for by createPrompt: a JSON object with the
\* five keys.
BlockOf(vals) ==
  <<"{">> \o JoinWith([n \in Sections |->
                         <<"\"", sectionKeys[n], "\"", ":", " ", "\"">> \o vals[n]
                           \o <<"\"">>], ",")
          \o <<"}">>
\* The same values as five labeled lines.
LabeledLines(vals) ==
  JoinWith([n \in Sections |-> <<sectionNames[n], ":", " ">> \o vals[n]], "\n")

BlockTexts ==
  {pre \o BlockOf(vals) : pre \in Preambles, vals \in [Sections -> SectionValues]}
Texts == ShortTexts \cup BlockTexts

PInit ==
  /\ aiResponse = <<>>
  /\ parsed = NoText
  /\ blockInsights = <<>>

\* A generated text arrives.
ReceiveText(text) ==
  /\ parsed = NoText
  /\ aiResponse' = text
  /\ parsed' = NotCalled
  /\ UNCHANGED blockInsights
  /\ UNCHANGED <<qvars, svars, xvars, rvars>>

\* parseAIResponse(aiResponse) is called.
ParseText ==
  /\ parsed = NotCalled
  /\ parsed' = parseAIResponse(aiResponse)
  /\ UNCHANGED <<aiResponse, blockInsights>>
  /\ UNCHANGED <<qvars, svars, xvars, rvars>>

SectionsOf(ins) == [n \in Sections |-> ins[Key(sectionKeys[n])]]
HasSections(ins) == \A n \in Sections : Key(sectionKeys[n]) \in DOMAIN ins

\* The block of a parsed response is taken out and its five values are
\* written in its place as five labeled lines; the new text is to be parsed.
ReplaceBlock ==
  /\ parsed.st = "returned"
  /\ blockInsights = <<>>
  /\ Match(aiResponse).found
  /\ HasSections(parsed.val)
  /\ LET m == Match(aiResponse) IN
       aiResponse' = SubSeq(aiResponse, 1, m.from - 1)
                       \o LabeledLines(SectionsOf(parsed.val))
                       \o SubSeq(aiResponse, m.to + 1, Len(aiResponse))
  /\ blockInsights' = parsed.val
  /\ parsed' = NotCalled
  /\ UNCHANGED <<qvars, svars, xvars, rvars>>

PNext ==
  \/ \E text \in Texts : ReceiveText(text)
  \/ ParseText
  \/ ReplaceBlock

----------------------------------------------------------------------------
(***************************************************************************)
(* AIProcessor                                                             *)
(***************************************************************************)

QInit ==
  /\ requestQueue = <<>>
  /\ processingQueue = FALSE
  /\ pc = [i \in Items |-> "new"]
  /\ attempts = [i \in Items |-> 0]
  /\ sleepRem = [i \in Items |-> 0]
  /\ timers = <<>>
  /\ sink = [i \in Items |-> [st |-> "none", val |-> "none"]]
  /\ nSubmitted = 0
  /\ settles = [i \in Items |-> 0]
  /\ calls = [i \in Items |-> 0]
  /\ outcomes = [i \in Items |-> <<>>]
  /\ lastErr = [i \in Items |-> "none"]
  /\ backoffs = [i \in Items |-> <<>>]
  /\ dispatchOrder = <<>>
  /\ sinceEnd = rateLimitDelay
  /\ startGap = rateLimitDelay
  /\ insights = [i \in Items |-> NotCalled]
  /\ emptyOnly = [i \in Items |-> FALSE]

\* sendToGemini: the generated text, or a thrown error.  A response without
\* text is an error (lines 161-166).
sendToGemini_noCheck(resp) ==
  IF resp \in {"text", "garbled", "empty"} THEN [ok |-> TRUE, val |-> resp]
  ELSE [ok |-> FALSE, val |-> "network error"]
sendToGemini(resp) ==
  IF resp \in {"text", "garbled"} THEN [ok |-> TRUE, val |-> resp]
  ELSE IF resp = "empty" THEN [ok |-> FALSE, val |-> "Empty response from Gemini"]
  ELSE [ok |-> FALSE, val |-> "network error"]

\* The generated texts: the requested block, or a block that does not parse.
GeneratedText == BlockOf([n \in Sections |-> <<"a">>])
GarbledText == <<"Primary skills", ":", " ", "a", "\n", "{", "a", "}">>
Content(val) ==
  IF val = "text" THEN GeneratedText
  ELSE IF val = "garbled" THEN GarbledText
  ELSE <<>>

\* parseAIResponse of each text that the promise can be resolved with.
ParsedContent ==
  [val \in {"text", "garbled", "empty"} |-> parseAIResponse(Content(val))]

\* processUser, lines 24-32: the try body once the promise s of
\* queueAIRequest is settled.
processUserBody(s) ==
  IF s.st = "resolved" THEN ParsedContent[s.val] ELSE Thrown(s.val)

\* processUser, lines 33-40: the catch.
processUserCatch(body) ==
  IF body.st = "threw"
  THEN Returned([k \in {errorKey, statusKey, timestampKey} |->
                   IF k = errorKey THEN body.val
                   ELSE IF k = statusKey THEN <<"error">>
                   ELSE Now])
  ELSE body

\* processUser resumes when its promise s is settled.
processUser(s) == processUserCatch(processUserBody(s))

\* A promise settles once; later resolve()/reject() calls are no-ops.
Settle(s, st, val) == IF s.st = "pending" THEN [st |-> st, val |-> val] ELSE s

\* processQueue, line 99: the early return.
ShouldReturn_ignoreFlag(flag, q) == Len(q) = 0
ShouldReturn(flag, q) == flag \/ Len(q) = 0

\* processQueue, line 102: this.requestQueue.shift().
Shift_pop(q) == [item |-> q[Len(q)], rest |-> SubSeq(q, 1, Len(q) - 1)]
Shift(q) == [item |-> Head(q), rest |-> Tail(q)]

\* processQueue, line 115: attempts >= maxAttempts.
Exhausted_late(a) == a > maxAttempts
Exhausted(a) == a >= maxAttempts

\* processQueue, line 117: the linearly growing retry delay.
retryDelay_const(a) == rateLimitDelay
retryDelay(a) == rateLimitDelay * a

\* processQueue, line 126: the re-arming timer of the finally block.
Rearm_none(ts) == ts
Rearm(ts) == Append(ts, rateLimitDelay)

\* processQueue up to its first await, run on queue q.
processQueue(q) ==
  IF ShouldReturn(processingQueue, q)
  THEN /\ requestQueue' = q
       /\ UNCHANGED <<processingQueue, pc, attempts, calls, dispatchOrder, startGap>>
  ELSE LET s == Shift(q) IN
       /\ processingQueue' = TRUE
       /\ requestQueue' = s.rest
       /\ pc' = [pc EXCEPT ![s.item] = "calling"]
       /\ attempts' = [attempts EXCEPT ![s.item] = 0]
       /\ calls' = [calls EXCEPT ![s.item] = @ + 1]
       /\ dispatchOrder' = Append(dispatchOrder, s.item)
       /\ startGap' = sinceEnd

\* queueAIRequest: push the item and call processQueue.
queueAIRequestCall ==
  /\ nSubmitted < MaxItems
  /\ LET i == nSubmitted + 1 IN
       /\ nSubmitted' = i
       /\ sink' = [sink EXCEPT ![i] = [st |-> "pending", val |-> "none"]]
       /\ processQueue(Append(requestQueue, i))
  /\ UNCHANGED <<sleepRem, timers, settles, outcomes, lastErr, backoffs, sinceEnd,
                 insights, emptyOnly>>

\* A caller other than the route handler submits a prompt.
queueAIRequest ==
  /\ queueAIRequestCall
  /\ UNCHANGED <<svars, pvars, xvars, rvars>>

\* The finally block of processQueue.
Finally_keepFlag ==
  /\ processingQueue' = processingQueue
  /\ timers' = Rearm(timers)
  /\ sinceEnd' = 0
Finally ==
  /\ processingQueue' = FALSE
  /\ timers' = Rearm(timers)
  /\ sinceEnd' = 0

\* The awaited sendToGemini call of item i finishes with response resp.  When
\* the promise of the item is settled, the processUser call awaiting it
\* resumes in the same turn (a microtask) and completes.
CallReturns(i, resp) ==
  /\ pc[i] = "calling"
  /\ LET r == sendToGemini(resp) IN
     IF r.ok
     THEN /\ outcomes' = [outcomes EXCEPT ![i] = Append(@, TRUE)]
          /\ sink' = [sink EXCEPT ![i] = Settle(@, "resolved", r.val)]
          /\ settles' = [settles EXCEPT ![i] = @ + 1]
          /\ pc' = [pc EXCEPT ![i] = "done"]
          /\ Finally
          /\ lastErr' = [lastErr EXCEPT ![i] = "none"]
          /\ emptyOnly' = [emptyOnly EXCEPT ![i] =
                             resp = "empty" /\ (Len(outcomes[i]) = 0 \/ @)]
          /\ insights' = [insights EXCEPT ![i] =
                            processUser(Settle(sink[i], "resolved", r.val))]
          /\ UNCHANGED <<attempts, sleepRem, backoffs>>
     ELSE /\ outcomes' = [outcomes EXCEPT ![i] = Append(@, FALSE)]
          /\ lastErr' = [lastErr EXCEPT ![i] = r.val]
          /\ emptyOnly' = [emptyOnly EXCEPT ![i] =
                             resp = "empty" /\ (Len(outcomes[i]) = 0 \/ @)]
          /\ attempts' = [attempts EXCEPT ![i] = @ + 1]
          /\ IF Exhausted(attempts[i] + 1)
             THEN /\ sink' = [sink EXCEPT ![i] = Settle(@, "rejected", r.val)]
                  /\ settles' = [settles EXCEPT ![i] = @ + 1]
                  /\ pc' = [pc EXCEPT ![i] = "done"]
                  /\ Finally
                  /\ insights' = [insights EXCEPT ![i] =
                                    processUser(Settle(sink[i], "rejected", r.val))]
                  /\ UNCHANGED <<sleepRem, backoffs>>
             ELSE /\ pc' = [pc EXCEPT ![i] = "backoff"]
                  /\ sleepRem' = [sleepRem EXCEPT ![i] = retryDelay(attempts[i] + 1)]
                  /\ backoffs' = [backoffs EXCEPT ![i] = Append(@, retryDelay(attempts[i] + 1))]
                  /\ UNCHANGED <<sink, settles, processingQueue, timers, sinceEnd,
                                 insights>>
  /\ UNCHANGED <<requestQueue, nSubmitted, calls, dispatchOrder, startGap>>
  /\ UNCHANGED <<svars, pvars, xvars, rvars>>

\* The backoff sleep of item i is over: the while condition is re-evaluated.
BackoffOver(i) ==
  /\ pc[i] = "backoff"
  /\ sleepRem[i] = 0
  /\ IF attempts[i] < maxAttempts
     THEN /\ pc' = [pc EXCEPT ![i] = "calling"]
          /\ calls' = [calls EXCEPT ![i] = @ + 1]
          /\ UNCHANGED <<processingQueue, timers, sinceEnd>>
     ELSE /\ pc' = [pc EXCEPT ![i] = "done"]
          /\ Finally
          /\ UNCHANGED calls
  /\ UNCHANGED <<requestQueue, attempts, sleepRem, sink, nSubmitted, settles,
                 outcomes, lastErr, backoffs, dispatchOrder, startGap, insights,
                 emptyOnly>>
  /\ UNCHANGED <<svars, pvars, xvars, rvars>>

\* A re-arming timer fires: processQueue runs again.
TimerFires ==
  /\ timers # <<>>
  /\ Head(timers) = 0
  /\ timers' = Tail(timers)
  /\ processQueue(requestQueue)
  /\ UNCHANGED <<sleepRem, sink, nSubmitted, settles, outcomes, lastErr, backoffs,
                 sinceEnd, insights, emptyOnly>>
  /\ UNCHANGED <<svars, pvars, xvars, rvars>>

----------------------------------------------------------------------------
(***************************************************************************)
(* GitHubScraper                                                           *)
(***************************************************************************)
NoPage == [st |-> "none", out |-> "none", res |-> <<>>, rem |-> 0]
NoRec == [username |-> "none", origin |-> <<0, 0>>, raw_data |-> "none"]
NoProf == [st |-> "none", out |-> "none", res |-> NoRec]
NoNet == [probe |-> 0, page |-> 0, profile |-> 0]

SInit ==
  /\ cache = <<>>
  /\ ncalls = 0
  /\ phase = [r \in Runs |-> "idle"]
  /\ query = [r \in Runs |-> Str(<<>>)]
  /\ npages = [r \in Runs |-> 0]
  /\ pageSt = [r \in Runs |-> [p \in PageNos |-> NoPage]]
  /\ users = [r \in Runs |-> <<>>]
  /\ bi = [r \in Runs |-> 0]
  /\ profSt = [r \in Runs |-> <<>>]
  /\ detailedUsers = [r \in Runs |-> <<>>]
  /\ pauseRem = [r \in Runs |-> 0]
  /\ result = [r \in Runs |-> <<>>]
  /\ outcome = [r \in Runs |-> "none"]
  /\ probeOut = [r \in Runs |-> "none"]
  /\ net = [r \in Runs |-> NoNet]
  /\ hitGets = 0
  /\ writes = <<>>
  /\ nops = [r \in Runs |-> 0]
  /\ nbatches = [r \in Runs |-> 0]
  /\ npauses = [r \in Runs |-> 0]
  /\ sinceBatch = [r \in Runs |-> scraperRateLimitDelay]
  /\ batchGap = [r \in Runs |-> scraperRateLimitDelay]

\* The composite cache keys.
PageKey(q, p) == <<"users", q, "page", p>>
ProfileKey(u) == <<"profile", u>>

\* this.cache.has / this.cache.get / this.cache.set
cacheHas_never(c, k) == FALSE
cacheHas(c, k) == k \in DOMAIN c
cacheGet(c, k) == c[k]
cacheSet(c, k, v) == [x \in DOMAIN c \cup {k} |-> IF x = k THEN v ELSE c[x]]
\* One more cache.set call with key k is recorded in w.
Written(w, k) ==
  [x \in DOMAIN w \cup {k} |-> IF x = k THEN (IF k \in DOMAIN w THEN w[k] + 1 ELSE 1)
                               ELSE w[x]]

\* searchUsers, line 28: the query is rejected.
InvalidQuery(q) ==
  \/ q.type = "undefined" \/ (q.type = "string" /\ Len(q.chars) = 0)
  \/ q.type # "string"
  \/ Len(Trim(q.chars)) = 0

\* The object {}: no key.
EmptyObject == <<>>

\* scrapeUsersPage, lines 295-302: the candidate pushed for entry k of page p.
\* origin stands for the entry's own fields (display_name, profile_url, bio).
Candidate(u, p, k) ==
  [username |-> u, origin |-> <<p, k>>, raw_data |-> "{}", ai_insights |-> EmptyObject]
ExtractUsers(doc, p) == [k \in 1..Len(doc) |-> Candidate(doc[k], p, k)]

\* fetchAllUsers, lines 76-78: the pages whose scrapeUsersPage call is made
\* before Promise.all is awaited.
PagesToDispatch_first(n) == {1}
PagesToDispatch(n) == 1..n

\* encodeURIComponent: a space becomes "%20", the letters of a query stay,
\* and a lone surrogate makes it throw URIError.
encodeURIComponent(chars) ==
  IF loneSurrogate \in Range(chars)
  THEN Thrown("URI malformed")
  ELSE Returned([k \in 1..Len(chars) |-> IF chars[k] = " " THEN "%20" ELSE chars[k]])

\* scrapeUsersPage up to its first await (lines 95-105).  The url is built
\* on line 101, before the try of line 104: when encodeURIComponent throws,
\* the promise of scrapeUsersPage is rejected.
PageCall(c, q, p) ==
  IF cacheHas(c, PageKey(q, p))
  THEN [st |-> "done", out |-> "hit", res |-> cacheGet(c, PageKey(q, p)), rem |-> 0]
  ELSE IF encodeURIComponent(q.chars).st = "threw"
  THEN [st |-> "done", out |-> "threw", res |-> <<>>, rem |-> 0]
  ELSE [st |-> "get", out |-> "none", res |-> <<>>, rem |-> 0]

\* fetchAllUsers, lines 83-89: pageResults flattened in page order.
RECURSIVE FlattenPages(_, _)
FlattenPages(ps, n) ==
  IF n = 0 THEN <<>> ELSE FlattenPages(ps, n - 1) \o ps[n].res

\* scrapeUserProfile up to its first await (lines 331-339).
ProfCall(c, user) ==
  IF cacheHas(c, ProfileKey(user.username))
  THEN [st |-> "done", out |-> "hit", res |-> cacheGet(c, ProfileKey(user.username))]
  ELSE [st |-> "get", out |-> "none", res |-> NoRec]

\* scrapeUserProfile, lines 341-344, 449-450 and 451-457: the record returned
\* for candidate user when its GET produced out.
ProfileRecord(user, out) ==
  IF out = "neterr" THEN [user EXCEPT !.raw_data = "error"]
  ELSE IF out = "empty" THEN user
  ELSE [user EXCEPT !.raw_data = "profile"]

\* scrapeUserProfile, lines 341-344, 449 and 451-457: the record is stored
\* in the cache only when the document was fetched and extracted.
ProfileStored_always(out) == TRUE
ProfileStored(out) == out = "ok"

\* processUserProfilesInBatches, line 320: users.slice(i, i + batchSize),
\* as indices of users (1-based).
BatchIdx(i, len) == (i + 1)..Min(i + batchSize, len)

\* processUserProfilesInBatches, line 322: Promise.all of the batch.
BatchComplete(ps, i) ==
  \A k \in BatchIdx(i, Len(ps)) : ps[k].st = "done"

\* processUserProfilesInBatches, lines 322-323: the values of Promise.all of
\* the batch starting at index i, in the order of the batch.
BatchResults_reversed(ps, i) ==
  LET idx == BatchIdx(i, Len(ps))
      n == Cardinality(idx)
  IN  [k \in 1..n |-> ps[i + n + 1 - k].res]
BatchResults(ps, i) ==
  [k \in 1..Cardinality(BatchIdx(i, Len(ps))) |-> ps[i + k].res]

\* processUserProfilesInBatches, line 325: another batch follows.
MorePending_orEqual(i, len) == i + batchSize <= len
MorePending(i, len) == i + batchSize < len

\* Indices that a candidate can have in the users of a call.
CandIdx ==
  LET longest == CHOOSE d \in PageDocs : \A e \in PageDocs : Len(e) <= Len(d)
  IN  1..(Cardinality(PageNos) * Len(longest))

\* The activation used when the calls of searchUsers follow one another.
SeqRuns == {1}

\* The call of searchUsers of run r has completed.
Completed(r) == phase[r] = "done"

\* The queue is idle in the specifications of the scraper.
QUnchanged == UNCHANGED <<qvars, pvars, xvars, rvars>>

\* searchUsers, lines 51-54: the catch turns an error thrown by the probe,
\* by fetchAllUsers or by processUserProfilesInBatches into the value [].
SearchCatch(e) == "fulfilled"

\* searchUsers(q, n) is called: validation, then the connectivity probe.
\* Activation r is free (never used, or its previous call has returned); its
\* locals and the observation of the call start afresh.
searchUsersCall(r, q, n) ==
  /\ phase[r] \in {"idle", "done"}
  /\ ncalls < MaxCalls
  /\ ncalls' = ncalls + 1
  /\ query' = [query EXCEPT ![r] = q]
  /\ npages' = [npages EXCEPT ![r] = n]
  /\ pageSt' = [pageSt EXCEPT ![r] = [p \in PageNos |-> NoPage]]
  /\ users' = [users EXCEPT ![r] = <<>>]
  /\ bi' = [bi EXCEPT ![r] = 0]
  /\ profSt' = [profSt EXCEPT ![r] = <<>>]
  /\ detailedUsers' = [detailedUsers EXCEPT ![r] = <<>>]
  /\ pauseRem' = [pauseRem EXCEPT ![r] = 0]
  /\ nops' = [nops EXCEPT ![r] = 0]
  /\ nbatches' = [nbatches EXCEPT ![r] = 0]
  /\ npauses' = [npauses EXCEPT ![r] = 0]
  /\ sinceBatch' = [sinceBatch EXCEPT ![r] = scraperRateLimitDelay]
  /\ batchGap' = [batchGap EXCEPT ![r] = scraperRateLimitDelay]
  /\ IF InvalidQuery(q)
     THEN /\ phase' = [phase EXCEPT ![r] = "done"]
          /\ result' = [result EXCEPT ![r] = <<>>]
          /\ outcome' = [outcome EXCEPT ![r] = "fulfilled"]
          /\ probeOut' = [probeOut EXCEPT ![r] = "none"]
          /\ net' = [net EXCEPT ![r] = NoNet]
     ELSE /\ phase' = [phase EXCEPT ![r] = "probe"]
          /\ result' = [result EXCEPT ![r] = <<>>]
          /\ outcome' = [outcome EXCEPT ![r] = "pending"]
          /\ probeOut' = [probeOut EXCEPT ![r] = "pending"]
          /\ net' = [net EXCEPT ![r] = [NoNet EXCEPT !.probe = 1]]
  /\ UNCHANGED <<cache, hitGets, writes>>

\* searchUsers is called by a caller other than the route handler.
searchUsers(r, q, n) ==
  /\ searchUsersCall(r, q, n)
  /\ QUnchanged

\* testGitHubConnectivity, lines 60-65: the probe succeeds on a non-empty
\* document.
ProbePasses_anyResponse(out) == out # "neterr"
ProbePasses(out) == out = "ok"

\* The probe GET of testGitHubConnectivity returns; on success fetchAllUsers
\* calls scrapeUsersPage for its pages.  fetchAllUsers has no try: when a
\* scrapeUsersPage promise is rejected, Promise.all and fetchAllUsers reject
\* and the catch of searchUsers runs, in the same turn.
ProbeReturns(r, out) ==
  /\ phase[r] = "probe"
  /\ probeOut' = [probeOut EXCEPT ![r] = out]
  /\ IF ~ProbePasses(out)
     THEN /\ phase' = [phase EXCEPT ![r] = "done"]
          /\ result' = [result EXCEPT ![r] = <<>>]
          /\ outcome' = [outcome EXCEPT ![r] = SearchCatch("Cannot access GitHub")]
          /\ UNCHANGED <<pageSt, net, hitGets>>
     ELSE LET pcalls == [p \in PageNos |->
                          IF p \in PagesToDispatch(npages[r])
                          THEN PageCall(cache, query[r], p) ELSE NoPage]
              gets == {p \in PageNos : pcalls[p].st = "get"}
              threw == {p \in PageNos : pcalls[p].out = "threw"}
          IN  /\ pageSt' = [pageSt EXCEPT ![r] = pcalls]
              /\ net' = [net EXCEPT ![r].page = @ + Cardinality(gets)]
              /\ hitGets' = hitGets + Cardinality(
                   {p \in gets : PageKey(query[r], p) \in DOMAIN cache})
              /\ IF threw = {}
                 THEN /\ phase' = [phase EXCEPT ![r] = "pages"]
                      /\ UNCHANGED <<result, outcome>>
                 ELSE /\ phase' = [phase EXCEPT ![r] = "done"]
                      /\ result' = [result EXCEPT ![r] = <<>>]
                      /\ outcome' = [outcome EXCEPT ![r] = SearchCatch("URI malformed")]
  /\ UNCHANGED <<ncalls, cache, writes, query, npages, users, bi, profSt, detailedUsers,
                 pauseRem, nops, nbatches, npauses, sinceBatch, batchGap>>
  /\ QUnchanged

\* The GET of search page p returns: catch, empty document, or extraction,
\* cache.set and the start of the sleep.
PageReturns(r, p, resp) ==
  /\ phase[r] = "pages"
  /\ pageSt[r][p].st = "get"
  /\ IF resp.kind # "ok"
     THEN /\ pageSt' = [pageSt EXCEPT ![r][p] =
                          [st |-> "done", out |-> resp.kind, res |-> <<>>, rem |-> 0]]
          /\ UNCHANGED <<cache, writes>>
     ELSE LET us == ExtractUsers(resp.doc, p) IN
          /\ cache' = cacheSet(cache, PageKey(query[r], p), us)
          /\ writes' = Written(writes, PageKey(query[r], p))
          /\ pageSt' = [pageSt EXCEPT ![r][p] =
                          [st |-> "sleep", out |-> "doc", res |-> us,
                           rem |-> scraperRateLimitDelay]]
  /\ UNCHANGED <<ncalls, phase, query, npages, users, bi, profSt, detailedUsers, pauseRem,
                 result, outcome, probeOut, net, hitGets, nops, nbatches, npauses, sinceBatch,
                 batchGap>>
  /\ QUnchanged

\* The sleep that ends scrapeUsersPage is over.
PageSleepOver(r, p) ==
  /\ phase[r] = "pages"
  /\ pageSt[r][p].st = "sleep"
  /\ pageSt[r][p].rem = 0
  /\ pageSt' = [pageSt EXCEPT ![r][p].st = "done"]
  /\ UNCHANGED <<ncalls, cache, writes, phase, query, npages, users, bi, profSt, detailedUsers,
                 pauseRem, result, outcome, probeOut, net, hitGets, nops, nbatches, npauses,
                 sinceBatch, batchGap>>
  /\ QUnchanged

\* One iteration of processUserProfilesInBatches starts at index i:
\* scrapeUserProfile is called for every user of the batch.
StartBatch(r, us, ps, i) ==
  LET calls2 == [k \in 1..Len(us) |->
                  IF k \in BatchIdx(i, Len(us)) THEN ProfCall(cache, us[k]) ELSE ps[k]]
      gets == {k \in BatchIdx(i, Len(us)) : calls2[k].st = "get"}
  IN  /\ bi' = [bi EXCEPT ![r] = i]
      /\ profSt' = [profSt EXCEPT ![r] = calls2]
      /\ net' = [net EXCEPT ![r].profile = @ + Cardinality(gets)]
      /\ hitGets' = hitGets + Cardinality(
           {k \in gets : ProfileKey(us[k].username) \in DOMAIN cache})
      /\ nops' = [nops EXCEPT ![r] = @ + Cardinality(BatchIdx(i, Len(us)))]
      /\ nbatches' = [nbatches EXCEPT ![r] = @ + 1]
      /\ batchGap' = [batchGap EXCEPT ![r] = sinceBatch[r]]

\* Promise.all of the pages is fulfilled: fetchAllUsers returns, and
\* searchUsers returns [] or enters processUserProfilesInBatches.
PagesDone(r) ==
  /\ phase[r] = "pages"
  /\ \A p \in 1..npages[r] : pageSt[r][p].st = "done"
  /\ LET us == FlattenPages(pageSt[r], npages[r]) IN
       /\ users' = [users EXCEPT ![r] = us]
       /\ IF Len(us) = 0
          THEN /\ phase' = [phase EXCEPT ![r] = "done"]
               /\ result' = [result EXCEPT ![r] = <<>>]
               /\ outcome' = [outcome EXCEPT ![r] = "fulfilled"]
               /\ UNCHANGED <<bi, profSt, net, hitGets, nops, nbatches, batchGap>>
          ELSE /\ phase' = [phase EXCEPT ![r] = "batch"]
               /\ StartBatch(r, us, [k \in 1..Len(us) |-> NoProf], 0)
               /\ UNCHANGED <<result, outcome>>
  /\ UNCHANGED <<ncalls, cache, writes, query, npages, pageSt, detailedUsers, pauseRem,
                 probeOut, npauses, sinceBatch>>
  /\ QUnchanged

\* The GET of the profile of candidate k returns.
ProfileReturns(r, k, out) ==
  /\ phase[r] \in {"batch", "pause"}
  /\ k \in DOMAIN profSt[r]
  /\ profSt[r][k].st = "get"
  /\ LET rec == ProfileRecord(users[r][k], out) IN
       /\ profSt' = [profSt EXCEPT ![r][k] = [st |-> "done", out |-> out, res |-> rec]]
       /\ IF ProfileStored(out)
          THEN /\ cache' = cacheSet(cache, ProfileKey(users[r][k].username), rec)
               /\ writes' = Written(writes, ProfileKey(users[r][k].username))
          ELSE UNCHANGED <<cache, writes>>
  /\ UNCHANGED <<ncalls, phase, query, npages, pageSt, users, bi, detailedUsers, pauseRem,
                 result, outcome, probeOut, net, hitGets, nops, nbatches, npauses, sinceBatch,
                 batchGap>>
  /\ QUnchanged

\* Promise.all of the batch is fulfilled: the results are pushed, then the
\* loop sleeps before the next batch or returns.
BatchDone(r) ==
  /\ phase[r] = "batch"
  /\ BatchComplete(profSt[r], bi[r])
  /\ LET len == Len(users[r])
         du == detailedUsers[r] \o BatchResults(profSt[r], bi[r])
     IN  /\ detailedUsers' = [detailedUsers EXCEPT ![r] = du]
         /\ sinceBatch' = [sinceBatch EXCEPT ![r] = 0]
         /\ IF MorePending(bi[r], len)
            THEN /\ phase' = [phase EXCEPT ![r] = "pause"]
                 /\ pauseRem' = [pauseRem EXCEPT ![r] = scraperRateLimitDelay]
                 /\ npauses' = [npauses EXCEPT ![r] = @ + 1]
                 /\ UNCHANGED <<result, outcome>>
            ELSE /\ phase' = [phase EXCEPT ![r] = "done"]
                 /\ result' = [result EXCEPT ![r] = du]
                 /\ outcome' = [outcome EXCEPT ![r] = "fulfilled"]
                 /\ UNCHANGED <<pauseRem, npauses>>
  /\ UNCHANGED <<ncalls, cache, writes, query, npages, pageSt, users, bi, profSt, net,
                 probeOut, hitGets, nops, nbatches, batchGap>>
  /\ QUnchanged

\* The inter-batch sleep is over: i += batchSize and the next batch starts.
PauseOver(r) ==
  /\ phase[r] = "pause"
  /\ pauseRem[r] = 0
  /\ phase' = [phase EXCEPT ![r] = "batch"]
  /\ StartBatch(r, users[r], profSt[r], bi[r] + batchSize)
  /\ UNCHANGED <<ncalls, cache, writes, query, npages, pageSt, users, detailedUsers,
                 pauseRem, result, outcome, probeOut, npauses, sinceBatch>>
  /\ QUnchanged

----------------------------------------------------------------------------
(***************************************************************************)
(* Structural extraction: scrapeUsersPage (search page) and the count      *)
(* fields of scrapeUserProfile.                                            *)
(*                                                                         *)
(* A document is represented by what each selector of the code finds in    *)
(* it.  Texts and hrefs are sequences of characters; a username, a scheme  *)
(* ("https:") or a host is one character.                                  *)
(***************************************************************************)
\* The container selectors in the order they are tried: 'div.iwUbcA', then
\* the entries of potentialSelectors.
containerSelectors ==
  <<"div.iwUbcA", "div.ldRxiI", "div[data-testid=\"results-list\"] > div",
    ".user-list-item", ".Box-row", ".search-result-item", ".user-list > li",
    ".list-item", "[data-hovercard-type=\"user\"]", ".repo-list > div",
    ".codesearch-results .hx_hit-user", ".flex-auto d-flex">>
Selectors == DOMAIN containerSelectors

\* An attribute or property that may be undefined / null.
Undefined == [def |-> FALSE, s |-> <<>>]
Defined(s) == [def |-> TRUE, s |-> s]
\* What a selector finds inside a result element: how many anchors, their
\* text (concatenated) and the href of the one attr() reads.
NoLink == [n |-> 0, text |-> <<>>, href |-> Undefined]
Link(text, href) == [n |-> 1, text |-> text, href |-> Defined(href)]

\* A result element: what each selector used by the per-element extraction
\* finds in it.
Element(span, prc, anchors, bold, mr1, hover, name, gray, muted, bio) ==
  [gbmbF |-> span, prcLink |-> prc, anchors |-> anchors, textBold |-> bold,
   mr1 |-> mr1, hovercard |-> hover, hYFqef |-> name, textGray |-> gray,
   fgMuted |-> muted, gKFdvh |-> bio]

\* lines 245-246: span.gbmbF and the last a.prc-Link-Link-85e08.
FirstAttempt(el) == [username |-> Trim(el.gbmbF), usernameLink |-> el.prcLink]

\* line 253: href && href.startsWith('/') && !href.includes('/')
BareHref(href) ==
  /\ href.def
  /\ href.s # <<>>
  /\ Head(href.s) = "/"
  /\ "/" \notin Range(href.s)

\* lines 250-257: the loop over all anchors of the element.
RECURSIVE SecondAttempt(_, _)
SecondAttempt(anchors, cur) ==
  IF anchors = <<>> THEN cur
  ELSE LET a == Head(anchors) IN
       IF BareHref(a.href) /\ cur.username = <<>>
       THEN SecondAttempt(Tail(anchors), [username |-> Trim(a.text), usernameLink |-> a])
       ELSE SecondAttempt(Tail(anchors), cur)

\* lines 262-269: a[href*="/"].text-bold, then a.mr-1, then the hovercard link.
ThirdAttempt(el) ==
  LET l == IF el.textBold.n # 0 THEN el.textBold
           ELSE IF el.mr1.n # 0 THEN el.mr1
           ELSE el.hovercard
  IN  [username |-> Trim(l.text), usernameLink |-> l]

\* lines 245-270: the username and its link.
UsernameOf(el) ==
  LET a1 == FirstAttempt(el)
      a2 == IF a1.username = <<>> THEN SecondAttempt(el.anchors, a1) ELSE a1
  IN  IF a2.username = <<>> THEN ThirdAttempt(el) ELSE a2

githubOrigin == <<"https:", "/", "/", "github.com">>

\* lines 275-279: the absolute profile URL.
FullProfileUrl(href) ==
  IF href.def /\ href.s # <<>> /\ Head(href.s) \in {"http:", "https:"}
  THEN href.s
  ELSE githubOrigin \o (IF href.def THEN href.s ELSE <<"undefined">>)

\* text || null
OrNull(text) == IF text = <<>> THEN Undefined ELSE Defined(text)

\* lines 282-290: the display name.
DisplayNameOf(el) ==
  IF Trim(el.hYFqef) # <<>> THEN Trim(el.hYFqef)
  ELSE IF Trim(el.textGray) # <<>> THEN Trim(el.textGray)
  ELSE Trim(el.fgMuted)

\* lines 295-302: the candidate pushed for an element.
UserOf(el) ==
  LET u == UsernameOf(el) IN
  [username |-> u.username,
   display_name |-> OrNull(DisplayNameOf(el)),
   profile_url |-> FullProfileUrl(u.usernameLink.href),
   bio |-> OrNull(Trim(el.gKFdvh)),
   raw_data |-> "{}",
   ai_insights |-> "{}"]

PlaceholderUser ==
  [username |-> <<>>, display_name |-> Undefined, profile_url |-> githubOrigin,
   bio |-> Undefined, raw_data |-> "{}", ai_insights |-> "{}"]

\* line 272: if (!username) return;
HasUsername(el) == UsernameOf(el).username # <<>>

\* lines 239-303: userElements.each; an element without username is skipped.
CollectUsers_placeholder(els) ==
  IF els = <<>> THEN <<PlaceholderUser>> ELSE [k \in 1..Len(els) |-> UserOf(els[k])]
CollectUsers(els) ==
  LET kept == SelectSeq(els, HasUsername)
  IN  [k \in 1..Len(kept) |-> UserOf(kept[k])]

\* lines 167-199: the elements of the first selector that finds any.
Matching(doc) == {k \in Selectors : doc[k] # <<>>}
UserElements(doc) ==
  IF Matching(doc) = {} THEN <<>>
  ELSE doc[CHOOSE k \in Matching(doc) : \A j \in Matching(doc) : k <= j]

\* scrapeUsersPage, lines 124-309 and the catch of lines 310-314, on a
\* document that was received.
ExtractPage(doc) == Returned(CollectUsers(UserElements(doc)))

\* ---- count fields of scrapeUserProfile ----
Digits == {"1", "2"}
IsDigit(c) == c \in Digits

\* \d+ at the head of t.
RECURSIVE TakeDigits(_)
TakeDigits(t) ==
  IF t # <<>> /\ IsDigit(Head(t)) THEN <<Head(t)>> \o TakeDigits(Tail(t)) ELSE <<>>

\* (?:,\d+)* at the head of t.
RECURSIVE TakeGroups(_)
TakeGroups(t) ==
  IF Len(t) >= 2 /\ t[1] = "," /\ IsDigit(t[2])
  THEN LET d == TakeDigits(Tail(t))
       IN  <<",">> \o d \o TakeGroups(SubSeq(t, Len(d) + 2, Len(t)))
  ELSE <<>>

\* text.match(/(\d+(?:,\d+)*)/): the leftmost match, [0] of it.
MatchCount(t) ==
  LET S == {i \in DOMAIN t : IsDigit(t[i])} IN
  IF S = {} THEN [found |-> FALSE, str |-> <<>>]
  ELSE LET i == CHOOSE x \in S : \A y \in S : x <= y
           rest == SubSeq(t, i, Len(t))
           d == TakeDigits(rest)
       IN  [found |-> TRUE, str |-> d \o TakeGroups(SubSeq(rest, Len(d) + 1, Len(rest)))]

\* text.replace(/\D/g, '')
StripNonDigits(t) == SelectSeq(t, IsDigit)

\* lines 351-369: contribution_count.
ContributionCount(doc) ==
  LET m == MatchCount(doc.h2) IN
  IF m.found THEN m.str
  ELSE IF doc.alt.def /\ MatchCount(doc.alt.s).found THEN MatchCount(doc.alt.s).str
  ELSE <<"0">>

\* lines 423-424: followers and following.
FollowCount(text) ==
  IF StripNonDigits(text) = <<>> THEN <<"0">> ELSE StripNonDigits(text)

ExtractCounts(doc) ==
  Returned([contribution_count |-> ContributionCount(doc),
            followers |-> FollowCount(doc.followers),
            following |-> FollowCount(doc.following)])

\* ---- documents on which the extraction is exercised ----
MaxCountLen == 3
CountChars == {"1", "2", ",", "k"}
RECURSIVE CountTextsOfLen(_)
CountTextsOfLen(n) ==
  IF n = 0 THEN {<<>>}
  ELSE {Append(t, c) : t \in CountTextsOfLen(n - 1), c \in CountChars}
CountTexts == UNION {CountTextsOfLen(n) : n \in 0..MaxCountLen}
FollowTexts == {<<>>, <<"k">>, <<"1", "k">>, <<"1", ",", "2">>, <<"k", "2", "k", "1">>}
ProfileDocs ==
  [h2 : CountTexts,
   alt : {Undefined, Defined(<<"k">>), Defined(<<"2", ",", "1", "k">>)},
   followers : FollowTexts,
   following : {<<>>, <<"1", ",", "2">>}]

ElementSamples ==
  <<Element(<<"u1">>, Link(<<"u1">>, <<"/", "u1">>), <<>>, NoLink, NoLink, NoLink,
            <<"n1">>, <<>>, <<>>, <<"b1">>),
    Element(<<" ", "u2">>, NoLink, <<>>, NoLink, NoLink, NoLink,
            <<>>, <<"n2">>, <<>>, <<>>),
    Element(<<>>, NoLink, <<>>, Link(<<"u3">>, <<"https:", "/", "/", "github.com", "/", "u3">>),
            Link(<<"x">>, <<"/", "x">>), NoLink, <<>>, <<>>, <<"n3">>, <<>>),
    Element(<<>>, NoLink, <<Link(<<"u2">>, <<"/", "u2">>)>>, NoLink, NoLink,
            Link(<<" ", "u1", " ">>, <<"/", "u1">>), <<>>, <<>>, <<>>, <<>>),
    Element(<<>>, NoLink, <<Link(<<"u2">>, <<"/", "u2">>)>>, NoLink, NoLink, NoLink,
            <<>>, <<>>, <<>>, <<"b2">>)>>
ElementLists ==
  {<<ElementSamples[1]>>, <<ElementSamples[5]>>,
   <<ElementSamples[1], ElementSamples[2]>>,
   <<ElementSamples[3], ElementSamples[5], ElementSamples[4]>>}

\* Documents in which at most two selectors find elements.
SearchDocs ==
  {[k \in Selectors |-> <<>>]}
    \cup {[k \in Selectors |-> IF k = a THEN els ELSE IF k = b THEN <<ElementSamples[1]>> ELSE <<>>] :
            a \in Selectors, b \in Selectors, els \in ElementLists}

XInit ==
  /\ searchDoc = [k \in Selectors |-> <<>>]
  /\ pageUsers = NoText
  /\ profileDoc = [h2 |-> <<>>, alt |-> Undefined, followers |-> <<>>, following |-> <<>>]
  /\ counts = NoText

\* A search-results document was received (lines 105-125).
ReceivePage(doc) ==
  /\ pageUsers = NoText
  /\ counts = NoText
  /\ searchDoc' = doc
  /\ pageUsers' = NotCalled
  /\ UNCHANGED <<profileDoc, counts>>
  /\ UNCHANGED <<qvars, svars, pvars, rvars>>

\* The extraction of scrapeUsersPage runs on it.
ExtractSearchResults ==
  /\ pageUsers = NotCalled
  /\ pageUsers' = ExtractPage(searchDoc)
  /\ UNCHANGED <<searchDoc, profileDoc, counts>>
  /\ UNCHANGED <<qvars, svars, pvars, rvars>>

\* A profile document was received (lines 339-346).
ReceiveProfile(doc) ==
  /\ pageUsers = NoText
  /\ counts = NoText
  /\ profileDoc' = doc
  /\ counts' = NotCalled
  /\ UNCHANGED <<searchDoc, pageUsers>>
  /\ UNCHANGED <<qvars, svars, pvars, rvars>>

\* The count fields of scrapeUserProfile are extracted from it.
ExtractProfileCounts ==
  /\ counts = NotCalled
  /\ counts' = ExtractCounts(profileDoc)
  /\ UNCHANGED <<searchDoc, pageUsers, profileDoc>>
  /\ UNCHANGED <<qvars, svars, pvars, rvars>>

XNext ==
  \/ \E doc \in SearchDocs : ReceivePage(doc)
  \/ ExtractSearchResults
  \/ \E doc \in ProfileDocs : ReceiveProfile(doc)
  \/ ExtractProfileCounts

----------------------------------------------------------------------------
(***************************************************************************)
(* Route handler GET /api/v1/github/users (src/app.js, lines 42-89)        *)
(*                                                                         *)
(* The requests are served one after another, on activation 1 of           *)
(* searchUsers.  The handler resumes, in a step of its own, once the       *)
(* promise it awaits is settled.  An object is shared by every variable    *)
(* that holds it: a write to one of its fields shows in all of them.       *)
(***************************************************************************)
defaultQuery == Str(<<"javascript developer">>)
\* line 46: req.query.query || 'javascript developer'
QueryParam(q) == IF q.type = "string" /\ Len(q.chars) = 0 THEN defaultQuery ELSE q
\* The query and pages parameters of the requests.
RouteQueries == {Str(<<>>), Str(<<"r">>)}
RoutePages == {1}
\* What the source site and the text-generation API answer to them; every
\* call of the API succeeds at its first attempt.
RouteResponses == {[kind |-> "ok", doc |-> <<"u1", "u2">>]}
RouteOutcomes == {"ok", "empty"}
RouteReplies == {"text"}

NoResponse == [status |-> 0, results |-> <<>>]

RInit ==
  /\ hst = "idle"
  /\ hk = 0
  /\ hitem = 0
  /\ enrichedUsers = <<>>
  /\ response = NoResponse

\* lines 42-54: a request arrives and the handler calls searchUsers.
Request(q, n) ==
  /\ hst = "idle"
  /\ searchUsersCall(1, QueryParam(q), n)
  /\ hst' = "searching"
  /\ hk' = 0
  /\ hitem' = 0
  /\ enrichedUsers' = <<>>
  /\ UNCHANGED response
  /\ UNCHANGED <<qvars, pvars, xvars>>

\* lines 59-62: the loop reaches user k and calls processUser(user), which
\* submits its prompt to the queue (ai-processor.js, lines 24-26).
NextUser(k) ==
  /\ queueAIRequestCall
  /\ hst' = "enriching"
  /\ hk' = k
  /\ hitem' = nSubmitted + 1
  /\ UNCHANGED response

\* lines 73-81: the result is sent.
Respond(results) ==
  /\ response' = [status |-> 200, results |-> results]
  /\ hst' = "idle"
  /\ hk' = 0
  /\ hitem' = 0
  /\ UNCHANGED qvars

\* lines 82-88: the catch of the handler.
RespondError ==
  /\ response' = [status |-> 500, results |-> <<>>]
  /\ hst' = "idle"
  /\ hk' = 0
  /\ hitem' = 0
  /\ UNCHANGED qvars

\* lines 54-59: searchUsers has returned; the loop starts.
SearchReturned ==
  /\ hst = "searching"
  /\ Completed(1)
  /\ enrichedUsers' = <<>>
  /\ IF outcome[1] = "rejected" THEN RespondError
     ELSE IF Len(result[1]) = 0 THEN Respond(<<>>)
     ELSE NextUser(1)
  /\ UNCHANGED <<svars, pvars, xvars>>

\* lines 62-69: what is assigned to user.ai_insights when the processUser
\* call completed as ins.
AiInsights(ins) ==
  IF ins.st = "returned" THEN ins.val ELSE [k \in {errorKey} |-> ins.val]

\* The record of user k of the call is the object held in the cache under
\* its profile key: scrapeUserProfile returned the object it stored (lines
\* 449-450) or the object it found (line 334).  In this specification a key
\* is stored at most once, so the object stored is the one found.
SharedProfile(k) ==
  /\ profSt[1][k].out \in {"ok", "hit"}
  /\ ProfileKey(result[1][k].username) \in DOMAIN cache
  /\ writes[ProfileKey(result[1][k].username)] = 1

\* The record of user k is the candidate itself (line 343), which is
\* element origin[2] of the page array held in the cache (lines 307, 98).
SharedCandidate(k) ==
  /\ profSt[1][k].out = "empty"
  /\ PageKey(query[1], result[1][k].origin[1]) \in DOMAIN cache
  /\ writes[PageKey(query[1], result[1][k].origin[1])] = 1

\* The cache after ai_insights of user k was assigned: the cache holds
\* objects, not copies.
CacheAfterAssign(k, user) ==
  IF SharedProfile(k)
  THEN [cache EXCEPT ![ProfileKey(user.username)] = user]
  ELSE IF SharedCandidate(k)
  THEN [cache EXCEPT ![PageKey(query[1], user.origin[1])][user.origin[2]] = user]
  ELSE cache

\* lines 62-70: the awaited processUser call has completed; ai_insights is
\* assigned, the user is pushed, and the loop goes on or the result is sent.
HandlerAssign ==
  /\ hst = "enriching"
  /\ insights[hitem].st \in {"returned", "threw"}
  /\ LET user == [result[1][hk] EXCEPT !.ai_insights = AiInsights(insights[hitem])]
         pushed == Append(enrichedUsers, user)
     IN  /\ result' = [result EXCEPT ![1][hk] = user]
         /\ detailedUsers' = [detailedUsers EXCEPT ![1][hk] = user]
         /\ cache' = CacheAfterAssign(hk, user)
         /\ enrichedUsers' = pushed
         /\ IF hk < Len(result[1]) THEN NextUser(hk + 1) ELSE Respond(pushed)
  /\ UNCHANGED <<ncalls, phase, query, npages, pageSt, users, bi, profSt, pauseRem,
                 outcome, probeOut, net, hitGets, writes, nops, nbatches, npauses,
                 sinceBatch, batchGap>>
  /\ UNCHANGED <<pvars, xvars>>

RNext ==
  \/ \E q \in RouteQueries, n \in RoutePages : Request(q, n)
  \/ \E r \in SeqRuns : ProbeReturns(r, "ok")
  \/ \E r \in SeqRuns, p \in RoutePages, resp \in RouteResponses : PageReturns(r, p, resp)
  \/ \E r \in SeqRuns, p \in RoutePages : PageSleepOver(r, p)
  \/ \E r \in SeqRuns : PagesDone(r)
  \/ \E r \in SeqRuns, k \in CandIdx, out \in RouteOutcomes : ProfileReturns(r, k, out)
  \/ \E r \in SeqRuns : BatchDone(r)
  \/ SearchReturned
  \/ HandlerAssign
  \/ \E i \in Items, resp \in RouteReplies : CallReturns(i, resp)
  \/ TimerFires

----------------------------------------------------------------------------
\* Time passes: every pending timer comes TickStep closer.
Tick ==
  /\ sleepRem' = [i \in Items |-> CountDown(sleepRem[i])]
  /\ timers' = [k \in 1..Len(timers) |-> CountDown(timers[k])]
  /\ sinceEnd' = Min(rateLimitDelay, sinceEnd + TickStep)
  /\ pageSt' = [r \in Runs |-> [p \in PageNos |->
                  [pageSt[r][p] EXCEPT !.rem = CountDown(@)]]]
  /\ pauseRem' = [r \in Runs |-> CountDown(pauseRem[r])]
  /\ sinceBatch' = [r \in Runs |-> Min(scraperRateLimitDelay, sinceBatch[r] + TickStep)]
  /\ <<sleepRem', timers', sinceEnd', pageSt', pauseRem', sinceBatch'>>
       # <<sleepRem, timers, sinceEnd, pageSt, pauseRem, sinceBatch>>
  /\ UNCHANGED <<requestQueue, processingQueue, pc, attempts, sink, nSubmitted,
                 settles, calls, outcomes, lastErr, backoffs, dispatchOrder,
                 startGap, insights, emptyOnly>>
  /\ UNCHANGED <<ncalls, cache, writes, phase, query, npages, users, bi, profSt,
                 detailedUsers, result, outcome, probeOut, net, hitGets, nops, nbatches, npauses,
                 batchGap>>
  /\ UNCHANGED <<pvars, xvars, rvars>>

QNext ==
  \/ queueAIRequest
  \/ \E i \in Items, resp \in Responses : CallReturns(i, resp)
  \/ \E i \in Items : BackoffOver(i)
  \/ TimerFires
  \/ Tick

Init == QInit /\ SInit /\ PInit /\ XInit /\ RInit

\* The request queue of AIProcessor under arbitrary submissions.
SpecQueue == Init /\ [][QNext]_vars

SNext ==
  \/ \E r \in SeqRuns, q \in Queries, n \in PageCounts : searchUsers(r, q, n)
  \/ \E r \in SeqRuns, out \in GetOutcomes : ProbeReturns(r, out)
  \/ \E r \in SeqRuns, p \in PageNos, resp \in PageResponses : PageReturns(r, p, resp)
  \/ \E r \in SeqRuns, p \in PageNos : PageSleepOver(r, p)
  \/ \E r \in SeqRuns : PagesDone(r)
  \/ \E r \in SeqRuns, k \in CandIdx, out \in GetOutcomes : ProfileReturns(r, k, out)
  \/ \E r \in SeqRuns : BatchDone(r)
  \/ \E r \in SeqRuns : PauseOver(r)
  \/ Tick

\* Calls of GitHubScraper.searchUsers on one scraper, each made after the
\* call before it has returned; the cache lives on between the calls.
SpecScraper == Init /\ [][SNext]_vars

\* Inputs of the calls that overlap in time: one query, one page, one
\* document; a list this short is fetched in a single batch, without pause.
BurstQuery == Str(<<"r">>)
BurstResponses == {[kind |-> "ok", doc |-> <<"u1", "u2">>]}
BurstOutcomes == {"ok", "neterr"}

CNext ==
  \/ \E r \in Runs : searchUsers(r, BurstQuery, 1)
  \/ \E r \in Runs : ProbeReturns(r, "ok")
  \/ \E r \in Runs, resp \in BurstResponses : PageReturns(r, 1, resp)
  \/ \E r \in Runs : PageSleepOver(r, 1)
  \/ \E r \in Runs : PagesDone(r)
  \/ \E r \in Runs, k \in CandIdx, out \in BurstOutcomes : ProfileReturns(r, k, out)
  \/ \E r \in Runs : BatchDone(r)
  \/ Tick

\* Calls of searchUsers that overlap in time on the one scraper that the
\* route handler shares between its requests (src/app.js, line 35).
SpecConcurrent == Init /\ [][CNext]_vars

\* Requests to GET /api/v1/github/users, served one after another.
SpecRoute == Init /\ [][RNext \/ Tick]_vars

\* The extraction of scrapeUsersPage and of the profile counts applied to
\* documents.
SpecExtract == Init /\ [][XNext]_vars

\* parseAIResponse applied to generated texts.
SpecParser == Init /\ [][PNext]_vars

FairSpecQueue ==
  /\ SpecQueue
  /\ WF_vars(\E i \in Items, resp \in Responses : CallReturns(i, resp))
  /\ WF_vars(\E i \in Items : BackoffOver(i))
  /\ WF_vars(TimerFires)
  /\ WF_vars(Tick)

----------------------------------------------------------------------------
(***************************************************************************)
(* Properties of the request queue                                         *)
(***************************************************************************)
InFlight == {i \in Items : pc[i] = "calling"}
Settled(i) == sink[i].st \in {"resolved", "rejected"}
AllFailed(i) == outcomes[i] = [k \in 1..maxAttempts |-> FALSE]

\* C1: at most one sendToGemini call is in progress in every reachable state,
\* whatever the interleaving of submissions, timer firings and completions.
C1_SingleFlight == Cardinality(InFlight) <= 1

\* An item is in flight while a later one waits in the FIFO and a re-arming
\* timer of an earlier dispatch is still pending.
C1_Witness ==
  /\ Cardinality(InFlight) = 1
  /\ Len(requestQueue) >= 1
  /\ timers # <<>>
  /\ \E i \in Items : pc[i] = "backoff" \/ pc[i] = "done"

\* C2: every dispatch starts at least rateLimitDelay after the end of the
\* dispatch before it.
C2_MinInterDispatchDelay ==
  startGap >= rateLimitDelay

\* C3: an item whose calls fail, fail, succeed made exactly 3 calls, slept
\* exactly the two backoffs rateLimitDelay*1 and rateLimitDelay*2, and its
\* promise was resolved by the single settle call.
C3_RetryRecovery ==
  \A i \in Items :
    outcomes[i] = <<FALSE, FALSE, TRUE>> =>
      /\ calls[i] = 3
      /\ backoffs[i] = <<rateLimitDelay * 1, rateLimitDelay * 2>>
      /\ sink[i] = [st |-> "resolved", val |-> "text"]
      /\ settles[i] = 1

C3_Witness == \E i \in Items : outcomes[i] = <<FALSE, FALSE, TRUE>>

\* C4: an item whose calls all fail made exactly maxAttempts calls and its
\* promise was rejected, once, with the error of the last call; a promise is
\* rejected only then, and submitting never fails: a submitted item has a
\* promise, pending until it is fulfilled.
C4_RetryExhaustion ==
  \A i \in Items :
    /\ AllFailed(i) =>
         /\ calls[i] = maxAttempts
         /\ sink[i] = [st |-> "rejected", val |-> lastErr[i]]
         /\ settles[i] = 1
    /\ sink[i].st = "rejected" => AllFailed(i)
    /\ calls[i] <= maxAttempts
    /\ i <= nSubmitted => sink[i].st # "none"

\* An item failed on every attempt, the last time on an empty response.
C4_Witness ==
  \E i \in Items : AllFailed(i) /\ lastErr[i] = "Empty response from Gemini"

\* C5: under fairness every submitted item is eventually fulfilled, and in
\* every state an item has been settled at most once, exactly once when its
\* promise is no longer pending.
C5_Delivery ==
  /\ [](\A i \in Items : /\ settles[i] <= 1
                          /\ Settled(i) <=> settles[i] = 1)
  /\ \A i \in Items : (sink[i].st = "pending") ~> Settled(i)

\* All items are fulfilled, the last one after waiting in the FIFO behind a
\* retried item.
C5_Witness ==
  /\ \A i \in Items : Settled(i)
  /\ \E i \in Items : Len(outcomes[i]) >= 2 /\ sink[i].st = "resolved"
  /\ \E i \in Items : sink[i].st = "rejected"

\* C6: items are dispatched in submission order (items are numbered by
\* submission), and an item's first call starts only after the dispatch of
\* every earlier item has ended.
C6_FIFO ==
  /\ dispatchOrder = [k \in 1..Len(dispatchOrder) |-> k]
  /\ \A a, b \in Items : (a < b /\ calls[b] > 0) => pc[a] = "done"

\* Three items were dispatched, the second one with retries while the third
\* one was waiting.
C6_Witness ==
  /\ Len(dispatchOrder) >= 3
  /\ Len(outcomes[2]) >= 2
  /\ startGap = 0

\* Items held by an activation of processQueue: dequeued, and being
\* attempted or backing off between attempts.
Dispatching == {i \in Items : pc[i] \in {"calling", "backoff"}}

\* C26: the flag processingQueue is true exactly while one dequeued item is
\* being attempted or is backing off; that item is not in the FIFO; the
\* flag is set only by a step that dequeues an item and cleared only by the
\* step that ends a dispatch, and the step that ends a dispatch (fulfilled
\* or exhausted) clears it; a set flag is eventually cleared.
C26_FlagInvariant ==
  /\ [](/\ processingQueue \in BOOLEAN
        /\ processingQueue <=> Cardinality(Dispatching) = 1
        /\ Cardinality(Dispatching) <= 1
        /\ \A i \in Dispatching : i \notin Range(requestQueue))
  /\ [][/\ (~processingQueue /\ processingQueue') =>
            \E i \in Items :
               /\ (i \in Range(requestQueue) \/ i = nSubmitted')
               /\ i \notin Dispatching
               /\ pc'[i] = "calling"
               /\ i \notin Range(requestQueue')
        /\ (processingQueue /\ ~processingQueue') =>
            \E i \in Dispatching : pc'[i] = "done"
        /\ \A i \in Dispatching : pc'[i] = "done" =>
              /\ ~processingQueue'
              /\ Settled(i)'
              /\ sink'[i].st = (IF outcomes'[i][Len(outcomes'[i])]
                                 THEN "resolved" ELSE "rejected")]_vars
  /\ processingQueue ~> ~processingQueue

\* The flag is set while an item backs off after a failed attempt and a
\* later item waits in the FIFO.
C26_Witness ==
  /\ processingQueue
  /\ \E i \in Items : pc[i] = "backoff" /\ Len(outcomes[i]) >= 1
  /\ requestQueue # <<>>

----------------------------------------------------------------------------
(***************************************************************************)
(* Properties of the fetch scheduler                                       *)
(***************************************************************************)
Ceil(m, b) == (m + b - 1) \div b
Batching(r) == phase[r] \in {"batch", "pause"}
\* searchUsers has returned the value of processUserProfilesInBatches.
Batched(r) == phase[r] = "done" /\ Len(users[r]) > 0
ProfInFlight(r) == {k \in DOMAIN profSt[r] : profSt[r][k].st = "get"}
ProfCalled(r) == {k \in DOMAIN profSt[r] : profSt[r][k].st # "none"}

C8_NoRecordDropped ==
  \A r \in Runs :
    Batched(r) =>
      /\ Len(result[r]) = Len(users[r])
      /\ \A k \in 1..Len(users[r]) :
           /\ result[r][k].username = users[r][k].username
           /\ profSt[r][k].out \in {"neterr", "empty"} =>
                result[r][k] = [users[r][k] EXCEPT !.raw_data = "error"]

\* The record of candidate k of call r: the cached record of its username on
\* a hit, else what scrapeUserProfile makes of the candidate.
RecordOf(r, k) ==
  IF profSt[r][k].out = "hit"
  THEN profSt[r][k].res
  ELSE ProfileRecord(users[r][k], profSt[r][k].out)

\* C21: at every moment detailedUsers holds, in the candidates' order, the
\* records of the candidates of the batches completed so far, and the list
\* that processUserProfilesInBatches returns has the record of the i-th
\* candidate at index i, whatever the order of completion inside a batch and
\* whichever fetches failed or hit the cache.
C21_OrderPreserved ==
  \A r \in Runs :
    /\ Len(detailedUsers[r]) <= Len(users[r])
    /\ \A k \in 1..Len(detailedUsers[r]) :
         /\ detailedUsers[r][k] = RecordOf(r, k)
         /\ detailedUsers[r][k].username = users[r][k].username
    /\ Batching(r) => Len(detailedUsers[r]) =
                        (IF phase[r] = "pause" THEN Min(bi[r] + batchSize, Len(users[r]))
                         ELSE bi[r])
    /\ Batched(r) =>
         /\ result[r] = detailedUsers[r]
         /\ Len(result[r]) = Len(users[r])

\* A call over at least four candidates has returned after two
\* batches, with a failed fetch, a cache hit and a success among them and
\* records of different usernames.
C21_Witness ==
  \E r \in Runs :
    /\ Batched(r)
    /\ Len(users[r]) >= 4
    /\ nbatches[r] >= 2
    /\ \E k \in DOMAIN profSt[r] : profSt[r][k].out = "neterr"
    /\ \E k \in DOMAIN profSt[r] : profSt[r][k].out = "hit"
    /\ \E k \in DOMAIN profSt[r] : profSt[r][k].out = "ok"
    /\ \E j, k \in 1..Len(users[r]) : result[r][j].username # result[r][k].username

\* Number of candidates of the pages before page p.
RECURSIVE Offset(_, _)
Offset(ps, p) == IF p = 1 THEN 0 ELSE Offset(ps, p - 1) + Len(ps[p - 1].res)

PastPages(r) == Batching(r) \/ (phase[r] = "done" /\ pageSt[r][1].st # "none")

\* C9: while the pages are awaited every page of the call has been
\* dispatched; a page whose fetch failed or came back empty contributes no
\* candidate and the other pages keep theirs; fetchAllUsers returns the
\* candidates of the pages in page order, and a non-empty list goes on to
\* profile batching (two pages, one failed and one with 3 candidates: 3).
C9_PartialSuccess ==
  \A r \in Runs :
    /\ phase[r] = "pages" => \A p \in 1..npages[r] : pageSt[r][p].st # "none"
    /\ \A p \in PageNos :
         pageSt[r][p].out \in {"neterr", "empty"} =>
           pageSt[r][p].st = "done" /\ pageSt[r][p].res = <<>>
    /\ PastPages(r) =>
         /\ Len(users[r]) = Offset(pageSt[r], npages[r] + 1)
         /\ \A p \in 1..npages[r] : \A k \in 1..Len(pageSt[r][p].res) :
              users[r][Offset(pageSt[r], p) + k] = pageSt[r][p].res[k]
         /\ Len(users[r]) > 0 => nbatches[r] >= 1
         /\ (/\ npages[r] = 2
             /\ \E p \in 1..2 : /\ pageSt[r][p].out = "neterr"
                                /\ Len(pageSt[r][3 - p].res) = 3)
              => Len(users[r]) = 3 /\ nops[r] = 3

\* Page 1 failed, page 2 gave 3 candidates, and their batch is being fetched.
C9_Witness ==
  \E r \in Runs :
    /\ phase[r] = "batch"
    /\ npages[r] = 2
    /\ pageSt[r][1].out = "neterr"
    /\ pageSt[r][2].out = "doc"
    /\ Len(users[r]) = 3
    /\ ProfInFlight(r) # {}

\* Lookups of the call that missed and went on to their GET.
PageMisses(r) ==
  {p \in PageNos : pageSt[r][p].st # "none" /\ pageSt[r][p].out \notin {"hit", "threw"}}
ProfMisses(r) ==
  {k \in DOMAIN profSt[r] : profSt[r][k].st # "none" /\ profSt[r][k].out # "hit"}
\* Every page and every profile of the call was found in the cache.
FullyCached(r) ==
  /\ Batched(r)
  /\ PageMisses(r) = {}
  /\ ProfMisses(r) = {}

\* No GET is issued for a page or a profile whose key is in the cache: the
\* GETs of a call are those of its lookups that missed.
HitSkipsGet ==
  /\ hitGets = 0
  /\ \A r \in Runs :
       /\ phase[r] \notin {"idle", "probe"} => net[r].page = Cardinality(PageMisses(r))
       /\ net[r].profile = Cardinality(ProfMisses(r))

\* C10 as stated: a hit issues no GET, and a call that finds every page and
\* every profile in the cache issues no network call at all.
C10_CachedRunNoNetwork ==
  /\ HitSkipsGet
  /\ \A r \in Runs :
       FullyCached(r) => net[r].probe + net[r].page + net[r].profile = 0

\* C10 amended: a hit issues no GET, and a call that finds every page and
\* every profile in the cache issues no page or profile GET; its only
\* network call is the connectivity probe.
C10_CachedRunProbeOnly ==
  /\ HitSkipsGet
  /\ \A r \in Runs :
       FullyCached(r) => net[r] = [probe |-> 1, page |-> 0, profile |-> 0]

\* The second call of searchUsers found two pages and seven profiles in the cache.
C10_Witness ==
  \E r \in Runs :
    /\ FullyCached(r)
    /\ ncalls = 2
    /\ npages[r] = 2
    /\ Len(users[r]) = 7

----------------------------------------------------------------------------
(***************************************************************************)
(* Properties of the cache and of the candidate list                       *)
(***************************************************************************)
\* C11: every cache key has been written (cache.set) at most once, whatever
\* the sequence of page and profile fetches, two lookups of one key that both
\* missed included.
C11_WriteOnce == \A k \in DOMAIN writes : writes[k] <= 1

\* Usernames that occur more than once in the sequence of candidates us.
Repeated(us) ==
  {us[a].username : a \in {x \in 1..Len(us) : \E y \in 1..Len(us) :
                                   y # x /\ us[y].username = us[x].username}}

\* C12: the candidate list that fetchAllUsers returns, and that searchUsers
\* hands to processUserProfilesInBatches, has no two candidates with the same
\* username.
C12_Deduplicated == \A r \in Runs : PastPages(r) => Repeated(users[r]) = {}

\* Number of profile GETs in flight for the calls in rs.
RECURSIVE InFlightOf(_)
InFlightOf(rs) ==
  IF rs = {} THEN 0
  ELSE LET r == CHOOSE x \in rs : TRUE
       IN  Cardinality(ProfInFlight(r)) + InFlightOf(rs \ {r})

\* C24: at every moment at most batchSize profile GETs are in flight
\* against the source site, all calls of searchUsers in progress on the
\* scraper taken together.
C24_BoundedProfileConcurrency == InFlightOf(Runs) <= batchSize

FailedOut == {"neterr", "empty"}

\* C25: a key once stored stays in the cache, and the value held under it
\* changes only by a cache.set of that key; no other step, the assignment
\* of ai_insights by the route handler in particular, changes a value held
\* in the cache.
C25_CachedValuesStable ==
  [][\A key \in DOMAIN cache :
       /\ key \in DOMAIN cache'
       /\ cache'[key] # cache[key] => writes'[key] > writes[key]]_vars

\* C27: a page or profile GET that fails or returns an empty document
\* leaves the cache unchanged, and a GET that succeeds stores its result
\* (an empty candidate list included) under its key; a key is in the cache
\* only if it was stored; and a lookup hits exactly when its key is in the
\* cache, so the key of a failed fetch misses and is fetched again.
C27_FailuresNotCached ==
  /\ [](DOMAIN cache = DOMAIN writes)
  /\ [][\A r \in Runs :
          /\ \A p \in PageNos :
               /\ (pageSt[r][p].st = "get" /\ pageSt'[r][p].st # "get") =>
                    IF pageSt'[r][p].out \in FailedOut
                    THEN cache' = cache
                    ELSE /\ PageKey(query[r], p) \in DOMAIN cache'
                         /\ cache'[PageKey(query[r], p)] = pageSt'[r][p].res
               /\ (pageSt[r][p].st = "none" /\ pageSt'[r][p].st # "none") =>
                    /\ pageSt'[r][p].out = "hit" <=> PageKey(query[r], p) \in DOMAIN cache
                    /\ pageSt'[r][p].out \notin {"hit", "threw"} => pageSt'[r][p].st = "get"
          /\ \A k \in DOMAIN profSt'[r] :
               LET key == ProfileKey(users'[r][k].username)
                   was == IF k \in DOMAIN profSt[r] THEN profSt[r][k].st ELSE "none"
               IN  /\ (was = "get" /\ profSt'[r][k].st # "get") =>
                        IF profSt'[r][k].out \in FailedOut
                        THEN cache' = cache
                        ELSE key \in DOMAIN cache' /\ cache'[key] = profSt'[r][k].res
                   /\ (was = "none" /\ profSt'[r][k].st # "none") =>
                        /\ profSt'[r][k].out = "hit" <=> key \in DOMAIN cache
                        /\ profSt'[r][k].out # "hit" => profSt'[r][k].st = "get"]_vars

\* In one call page 1 failed and page 2 was stored, and among the profiles
\* one fetch came back empty and left no entry while another was stored.
C27_Witness ==
  \E r \in Runs :
    /\ pageSt[r][1].out = "neterr"
    /\ PageKey(query[r], 1) \notin DOMAIN cache
    /\ pageSt[r][2].out = "doc"
    /\ PageKey(query[r], 2) \in DOMAIN cache
    /\ \E k \in DOMAIN profSt[r] :
         /\ profSt[r][k].out = "empty"
         /\ ProfileKey(users[r][k].username) \notin DOMAIN cache
    /\ \E k \in DOMAIN profSt[r] :
         /\ profSt[r][k].out = "ok"
         /\ ProfileKey(users[r][k].username) \in DOMAIN cache

----------------------------------------------------------------------------
(***************************************************************************)
(* Properties of the response parser                                       *)
(***************************************************************************)
\* parseAIResponse(aiResponse) has completed.
Parsed == parsed.st \in {"returned", "threw"}
\* aiResponse holds a brace-delimited block that JSON.parse rejects.
MalformedBlock ==
  Match(aiResponse).found /\ ~JSONparse(Match(aiResponse).block).ok
SectionKeySet == {Key(sectionKeys[n]) : n \in Sections}

\* C13: for a text whose block (first "{" to last "}") fails to parse,
\* parseAIResponse returns the insights of the labeled-line scan, with the
\* five section fields and no error field.
C13_FallbackOnMalformedBlock ==
  (Parsed /\ MalformedBlock) =>
     /\ parsed.st = "returned"
     /\ SectionKeySet \subseteq DOMAIN parsed.val
     /\ errorKey \notin DOMAIN parsed.val
     /\ \A n \in Sections :
          parsed.val[Key(sectionKeys[n])]
            = extractSection(Split(aiResponse, "\n"), sectionNames[n])

\* C15: parseAIResponse returns insights for every text and never throws;
\* the insights carry the text unchanged and a timestamp; when the
\* structured parse failed they are the error insights: the error tag, the
\* text, the timestamp, and none of the five section fields.
C15_ParserTotal ==
  Parsed =>
    /\ parsed.st = "returned"
    /\ {rawResponseKey, timestampKey} \subseteq DOMAIN parsed.val
    /\ parsed.val[rawResponseKey] = aiResponse
    /\ parsed.val[timestampKey] = Now
    /\ MalformedBlock =>
         /\ DOMAIN parsed.val = {errorKey, rawResponseKey, timestampKey}
         /\ parsed.val[errorKey] = <<"Failed to parse AI response">>
         /\ SectionKeySet \cap DOMAIN parsed.val = {}

\* The error insights were returned for a text with a label line and a
\* block that does not parse.
C15_Witness ==
  /\ parsed.st = "returned"
  /\ MalformedBlock
  /\ "Primary skills" \in Range(aiResponse)
  /\ errorKey \in DOMAIN parsed.val

\* Whitespace normalization: runs of spaces become one space, and the
\* spaces at both ends are dropped.
RECURSIVE Squeeze(_)
Squeeze(t) ==
  IF Len(t) < 2 THEN t
  ELSE IF t[1] = " " /\ t[2] = " " THEN Squeeze(Tail(t))
  ELSE <<t[1]>> \o Squeeze(Tail(t))
Normalized(t) == Trim(Squeeze(t))

\* C16: a text with a well-formed block of the five keys parses to insights
\* whose fields are the block's keys with the block's values, plus the raw
\* text and the timestamp; and when the block is replaced by five labeled
\* lines holding the same values, the text parses to the same five values
\* up to whitespace normalization.
C16_RoundTrip ==
  /\ (Parsed /\ blockInsights = <<>>) =>
       \A pre \in Preambles, vals \in [Sections -> SectionValues] :
         aiResponse = pre \o BlockOf(vals) =>
           /\ parsed.st = "returned"
           /\ DOMAIN parsed.val = SectionKeySet \cup {rawResponseKey, timestampKey}
           /\ SectionsOf(parsed.val) = vals
  /\ (Parsed /\ blockInsights # <<>>) =>
       /\ parsed.st = "returned"
       /\ SectionKeySet \subseteq DOMAIN parsed.val
       /\ \A n \in Sections :
            Normalized(parsed.val[Key(sectionKeys[n])])
              = Normalized(blockInsights[Key(sectionKeys[n])])

\* The whole text of a line after its first ":" (nothing when it has none).
AfterFirstSeparator(line) ==
  IF FirstIdx(line, ":") = 0 THEN <<>>
  ELSE SubSeq(line, FirstIdx(line, ":") + 1, Len(line))

\* The value that the section rule gives for label sectionName: the text
\* after the first ":" of the first line with the label, then the lines
\* that follow it up to the first blank line or line with a ":".
SectionRule(lines, sectionName) ==
  LET S == {i \in DOMAIN lines : sectionName \in Range(lines[i])} IN
  IF S = {} THEN <<>>
  ELSE LET i == CHOOSE x \in S : \A y \in S : x <= y
       IN  Continuation(lines, i + 1, Trim(AfterFirstSeparator(lines[i])))

\* C22: when parseAIResponse uses the line scan (the text has no block),
\* it returns, and each of the five fields is the value of the section rule
\* for its label, the empty string when no line has the label.
C22_SectionRule ==
  (Parsed /\ ~Match(aiResponse).found) =>
     /\ parsed.st = "returned"
     /\ \A n \in Sections :
          parsed.val[Key(sectionKeys[n])]
            = SectionRule(Split(aiResponse, "\n"), sectionNames[n])

----------------------------------------------------------------------------
(***************************************************************************)
(* Properties of processUser                                               *)
(***************************************************************************)
\* The dispatch of item i ended and every response it got was without text.
AlwaysEmpty(i) == pc[i] = "done" /\ emptyOnly[i]

\* C14: when every call made for a profile got a response without text,
\* processUser returns the error variant: error set (to the message of
\* sendToGemini), status and timestamp, and no primary_skills field.
C14_EmptyContent ==
  \A i \in Items :
    AlwaysEmpty(i) =>
      /\ insights[i].st = "returned"
      /\ DOMAIN insights[i].val = {errorKey, statusKey, timestampKey}
      /\ insights[i].val[errorKey] = <<"Empty response from Gemini">>
      /\ insights[i].val[timestampKey] = Now
      /\ Key("primary_skills") \notin DOMAIN insights[i].val

\* An item got maxAttempts responses without text and its processUser call
\* has returned, while another item got a text.
C14_Witness ==
  \E i, j \in Items :
    /\ AlwaysEmpty(i)
    /\ calls[i] = maxAttempts
    /\ insights[i].st = "returned"
    /\ sink[j].st = "resolved"

----------------------------------------------------------------------------
(***************************************************************************)
(* Properties of the structural extraction                                 *)
(***************************************************************************)
\* The pattern match that a count is taken from, "" when nothing matched.
MatchedCountText ==
  IF MatchCount(profileDoc.h2).found THEN MatchCount(profileDoc.h2).str
  ELSE IF profileDoc.alt.def THEN MatchCount(profileDoc.alt.s).str
  ELSE <<>>
DigitsOrZero(t) == IF StripNonDigits(t) = <<>> THEN <<"0">> ELSE StripNonDigits(t)

\* C17: each count field (contribution_count, followers, following) is the
\* matched text with every non-digit removed, "0" when that leaves nothing
\* or nothing matched, and extracting the counts never throws.
C17_CountsDigitOnly ==
  counts.st \notin {"idle", "none"} =>
    /\ counts.st = "returned"
    /\ counts.val.contribution_count = DigitsOrZero(MatchedCountText)
    /\ counts.val.followers = DigitsOrZero(profileDoc.followers)
    /\ counts.val.following = DigitsOrZero(profileDoc.following)

\* C18: for a search-results document in which no container selector finds
\* an element, the extraction returns the empty list and does not throw.
C18_ZeroMatchPage ==
  (pageUsers.st \notin {"idle", "none"} /\ Matching(searchDoc) = {}) =>
    pageUsers = Returned(<<>>)

\* The extraction has run on a document without any container element.
C18_Witness ==
  /\ pageUsers.st = "returned"
  /\ \A k \in Selectors : searchDoc[k] = <<>>

\* The first non-empty text of a list of texts, the empty text when there
\* is none.
RECURSIVE FirstNonEmpty(_)
FirstNonEmpty(ts) ==
  IF ts = <<>> THEN <<>>
  ELSE IF Head(ts) # <<>> THEN Head(ts)
  ELSE FirstNonEmpty(Tail(ts))

\* A site-relative href with one path segment ("/name"): the links that
\* the second username strategy walks over.
RelativeHref(href) ==
  /\ href.def
  /\ href.s # <<>>
  /\ Head(href.s) = "/"
  /\ "/" \notin Range(Tail(href.s))

\* What each username strategy yields for an element, in the fixed order.
UsernameStrategies(el) ==
  <<Trim(el.gbmbF),
    FirstNonEmpty([k \in 1..Len(el.anchors) |->
                     IF RelativeHref(el.anchors[k].href)
                     THEN Trim(el.anchors[k].text) ELSE <<>>]),
    Trim(el.textBold.text), Trim(el.mr1.text), Trim(el.hovercard.text)>>
DisplayNameStrategies(el) ==
  <<Trim(el.hYFqef), Trim(el.textGray), Trim(el.fgMuted)>>
Resolvable(el) == FirstNonEmpty(UsernameStrategies(el)) # <<>>

\* C23: the elements are those of the first container selector that finds
\* any; each element with a resolvable username gives one candidate, in
\* document order, whose username and display name are the first non-empty
\* result of their strategies in the fixed order (null for an exhausted
\* display name or bio); only the elements whose username cascade is
\* exhausted are discarded.
C23_OrderedCascade ==
  pageUsers.st \notin {"idle", "none"} =>
    /\ pageUsers.st = "returned"
    /\ LET kept == SelectSeq(UserElements(searchDoc), Resolvable) IN
         /\ Len(pageUsers.val) = Len(kept)
         /\ \A k \in 1..Len(kept) :
              /\ pageUsers.val[k].username = FirstNonEmpty(UsernameStrategies(kept[k]))
              /\ pageUsers.val[k].display_name
                   = OrNull(FirstNonEmpty(DisplayNameStrategies(kept[k])))
              /\ pageUsers.val[k].bio = OrNull(Trim(kept[k].gKFdvh))

\* The hrefs of the links that the username strategies can match inside
\* an element.
MatchedHrefs(el) ==
  {l.href.s : l \in {x \in {el.prcLink, el.textBold, el.mr1, el.hovercard}
                         \cup Range(el.anchors) : x.n # 0 /\ x.href.def}}
AbsoluteUrl(url) == url # <<>> /\ Head(url) \in {"http:", "https:"}

\* C29: every candidate of the extraction has a non-empty username and a
\* profile_url that is absolute and is the href of a link matched inside
\* the candidate's element, prefixed with the origin when it is relative.
C29_ProfileUrlWellFormed ==
  pageUsers.st = "returned" =>
    LET kept == SelectSeq(UserElements(searchDoc), HasUsername) IN
    /\ Len(pageUsers.val) = Len(kept)
    /\ \A k \in 1..Len(kept) :
         /\ pageUsers.val[k].username # <<>>
         /\ AbsoluteUrl(pageUsers.val[k].profile_url)
         /\ \E h \in MatchedHrefs(kept[k]) :
              pageUsers.val[k].profile_url \in {h, githubOrigin \o h}

----------------------------------------------------------------------------
(***************************************************************************)
(* Properties of the error handling of the pipeline                        *)
(***************************************************************************)
\* C19: for an empty, whitespace-only or non-string query searchUsers
\* reports a failure to its caller (its promise is rejected) and issues no
\* network request: no probe, no page GET, no profile GET.
C19_ValidationReported ==
  \A r \in Runs :
    (Completed(r) /\ InvalidQuery(query[r])) =>
      /\ outcome[r] = "rejected"
      /\ net[r] = NoNet

\* C28: for a valid query the first network call of searchUsers is one probe
\* GET, made before any page or profile call; when the probe fails or
\* returns an empty document, searchUsers returns [] with the probe as its
\* only network call: no scrapeUsersPage and no scrapeUserProfile call is
\* made, so the cache is not looked up even when it holds the pages.
C28_ProbeGates ==
  \A r \in Runs :
    /\ (phase[r] # "idle" /\ ~InvalidQuery(query[r])) =>
         net[r].probe = 1 /\ probeOut[r] # "none"
    /\ phase[r] = "probe" =>
         /\ probeOut[r] = "pending"
         /\ net[r] = [probe |-> 1, page |-> 0, profile |-> 0]
         /\ \A p \in PageNos : pageSt[r][p].st = "none"
    /\ probeOut[r] \in FailedOut =>
         /\ Completed(r)
         /\ outcome[r] = "fulfilled"
         /\ result[r] = <<>>
         /\ net[r] = [probe |-> 1, page |-> 0, profile |-> 0]
         /\ \A p \in PageNos : pageSt[r][p].st = "none"
         /\ profSt[r] = <<>>
         /\ nops[r] = 0

\* The probe of the second call returned an empty document while the cache
\* holds candidates for page 1 of its query.
C28_Witness ==
  \E r \in Runs :
    /\ ncalls = 2
    /\ probeOut[r] = "empty"
    /\ PageKey(query[r], 1) \in DOMAIN cache
    /\ cache[PageKey(query[r], 1)] # <<>>

====
